---- MODULE Spec2Model ----
(***************************************************************************)
(* The dataset preparation of the YOLO v5 walkthrough                      *)
(* (src/manuscript/10.object-detection-with-YOLO-v5.md): the construction  *)
(* of the sorted `categories` list, train_test_split, and the two calls of *)
(* create_dataset, which writes one image and one label file per row.      *)
(*                                                                         *)
(* Numbers.  Normalized coordinates are Python floats in the source.  Here *)
(* a coordinate is an integer count of 1/One; every input coordinate is    *)
(* even, so the halving in the centre formula is exact.  Floating-point    *)
(* rounding is not modelled.                                               *)
(*                                                                         *)
(* Strings.  A category name is a TLA+ string; list.sort() compares names  *)
(* by their code points (CodePoints, LexLess).                             *)
(*                                                                         *)
(* Files.  A directory is a function from the file names it holds to their *)
(* contents.  A label file's content is the sequence of its lines, a line  *)
(* the record of the five numbers the f-string prints.                     *)
(***************************************************************************)
EXTENDS Integers, Sequences, FiniteSets, TLC

VARIABLES
    clothing,        \* the list of all rows (lines 81-84)
    categories,      \* the `categories` list (lines 132-137)
    train_clothing,  \* first result of train_test_split (line 156)
    val_clothing,    \* second result of train_test_split (line 156)
    pc,              \* position in the notebook
    dataset_type,    \* create_dataset's third parameter of the running/last call
    fpc,             \* position inside create_dataset ("none": not in a call)
    img_id,          \* the enumerate counter (line 278)
    cursor,          \* how many (annotation, label) pairs of the row are done
    label_file,      \* the lines written to the open label file, not yet on disk
    images,          \* clothing/images/<dataset_type>/ : name -> content
    labels,          \* clothing/labels/<dataset_type>/ : name -> lines
    written,         \* the files this run has written: <<kind, dataset_type, name>>
    error,           \* the exception that ended the run, or "none"
    prior,           \* how many rows an earlier run left files for
    before,          \* the two output trees as they were when this run began
    rerun,           \* the cell of lines 315-316 has been run a second time
    model,           \* part_000: the loaded classifier, text -> logits (lines 210-215)
    request,         \* part_000: the SentimentRequest being handled, if any
    prediction,      \* part_000: the tuple model.predict returned (line 264), if any
    response,        \* part_000: the SentimentResponse returned (lines 265-267), if any
    hpc              \* part_000: position in the /predict handler

vars == <<clothing, categories, train_clothing, val_clothing, pc, dataset_type,
          fpc, img_id, cursor, label_file, images, labels, written, error, prior,
          before, rerun, model, request, prediction, response, hpc>>

\* The variables of the notebook, and those of the sentiment API.
notebook == <<clothing, categories, train_clothing, val_clothing, pc, dataset_type,
              fpc, img_id, cursor, label_file, images, labels, written, error, prior,
              before, rerun>>
api == <<model, request, prediction, response, hpc>>

----------------------------------------------------------------------------
(* Bounds *)

\* The longest list of rows of a run.
MaxRecords == 3

----------------------------------------------------------------------------
(* Values *)

\* The fixed-point unit: the coordinate 1.0.
One == 20

DatasetTypes == {"train", "val"}

Range(s) == {s[i] : i \in 1..Len(s)}

\* The code points of a category name, as Python's str comparison reads them.
CodePoints(s) ==
    CASE s = "Jackets"     -> <<74, 97, 99, 107, 101, 116, 115>>
      [] s = "Jeans"       -> <<74, 101, 97, 110, 115>>
      [] s = "Shirts"      -> <<83, 104, 105, 114, 116, 115>>
      [] s = "Shoes"       -> <<83, 104, 111, 101, 115>>
      [] s = "Skirts"      -> <<83, 107, 105, 114, 116, 115>>
      [] s = "Tops"        -> <<84, 111, 112, 115>>
      [] s = "Trousers"    -> <<84, 114, 111, 117, 115, 101, 114, 115>>
      [] s = "Tshirts"     -> <<84, 115, 104, 105, 114, 116, 115>>
      [] s = "sunglasses"  -> <<115, 117, 110, 103, 108, 97, 115, 115, 101, 115>>

RECURSIVE SeqLess(_, _)
\* Lexicographic order of two code point sequences; a proper prefix is smaller.
SeqLess(a, b) ==
    IF b = <<>> THEN FALSE
    ELSE IF a = <<>> THEN TRUE
    ELSE IF Head(a) # Head(b) THEN Head(a) < Head(b)
    ELSE SeqLess(Tail(a), Tail(b))

\* str.__lt__
LexLess(s, t) == SeqLess(CodePoints(s), CodePoints(t))

RECURSIVE Insert(_, _)
\* One step of the sort: x goes before the first element greater than it.
Insert(x, s) ==
    IF s = <<>> THEN <<x>>
    ELSE IF LexLess(x, Head(s)) THEN <<x>> \o s
    ELSE <<Head(s)>> \o Insert(x, Tail(s))

RECURSIVE InsertionSort(_)
InsertionSort(s) ==
    IF s = <<>> THEN <<>>
    ELSE Insert(s[Len(s)], InsertionSort(SubSeq(s, 1, Len(s) - 1)))

\* The list as it is when the sort is left out.
SortOmitted(s) == s

\* list.sort() (line 137)
Sort(s) == InsertionSort(s)

\* An annotation: the labels of a box and its two corner points.
Box(label, x1, y1, x2, y2) ==
    [label |-> label, points |-> <<[x |-> x1, y |-> y1], [x |-> x2, y |-> y2]>>]

\* The locator of the i-th image of the dataset file.
Url(i) == <<"http", i>>

\* A row of clothing.json.
Row(i, annotation) == [content |-> Url(i), annotation |-> annotation]

\* The JPEG that img.save writes for the image fetched from `url`.
Jpeg(url) == <<"JPEG", url>>

\* The name as it is when the counter starts at 1.
image_name_from_one(id) == <<id + 1, "jpeg">>

image_name(id) == <<id, "jpeg">>

label_name(id) == <<id, "txt">>

----------------------------------------------------------------------------
(* The categories list *)

RECURSIVE ExtendAll(_)
\* categories.extend(a['label']) over the annotations of one row (lines 134-135)
ExtendAll(annotation) ==
    IF annotation = <<>> THEN <<>>
    ELSE Head(annotation).label \o ExtendAll(Tail(annotation))

RECURSIVE Extended(_)
\* The list after the two loops of lines 133-135: every label, repeats kept.
Extended(rows) ==
    IF rows = <<>> THEN <<>>
    ELSE ExtendAll(Head(rows).annotation) \o Extended(Tail(rows))

\* The list as it is when set() is left out: repeats stay.
ListKept(l) == {l}

\* list(set(l)) (line 136): the distinct elements of l, in any order the hash
\* order of the set may give.
ListOfSet(l) ==
    LET S == Range(l)
    IN  {f \in [1..Cardinality(S) -> S] : Range(f) = S}

\* The results the cell of lines 132-137 can give for `rows`.
CategoriesOf(rows) == {Sort(l) : l \in ListOfSet(Extended(rows))}

\* list.index (line 296), 0-based; the caller checks membership first.
Index(list, x) ==
    CHOOSE i \in 0..(Len(list) - 1) :
        /\ list[i + 1] = x
        /\ \A j \in 0..(i - 1) : list[j + 1] # x

----------------------------------------------------------------------------
(* create_dataset: helpers *)

\* The rows the running (or last) call was given: its `clothing` parameter.
Rows == IF dataset_type = "train" THEN train_clothing ELSE val_clothing

\* The row of the current iteration (enumerate counts from 0).
CurrentRow == Rows[img_id + 1]

RECURSIVE LabelPairs(_)
\* The (a, label) pairs one row's two nested loops visit, in loop order
\* (lines 292-294).
LabelPairs(annotation) ==
    IF annotation = <<>> THEN <<>>
    ELSE LET a == Head(annotation)
         IN  [i \in 1..Len(a.label) |-> [a |-> a, label |-> a.label[i]]]
                 \o LabelPairs(Tail(annotation))

\* The line as it is when the centre is taken a whole width from the corner.
LineNoHalf(cats, label, a) ==
    LET p1 == a.points[1]
        p2 == a.points[2]
    IN  [category_idx |-> Index(cats, label),
         x_center     |-> p1.x + (p2.x - p1.x),
         y_center     |-> p1.y + (p2.y - p1.y),
         bbox_width   |-> p2.x - p1.x,
         bbox_height  |-> p2.y - p1.y]

\* The line as it is when the index is taken in a list built from the rows of
\* the call alone.
LinePerSplit(cats, label, a) ==
    LET p1 == a.points[1]
        p2 == a.points[2]
    IN  [category_idx |-> Index(CHOOSE c \in CategoriesOf(Rows) : TRUE, label),
         x_center     |-> p1.x + (p2.x - p1.x) \div 2,
         y_center     |-> p1.y + (p2.y - p1.y) \div 2,
         bbox_width   |-> p2.x - p1.x,
         bbox_height  |-> p2.y - p1.y]

\* The line the f-string of lines 307-309 prints for one pair.
Line(cats, label, a) ==
    LET p1 == a.points[1]
        p2 == a.points[2]
        x1 == p1.x
        y1 == p1.y
        x2 == p2.x
        y2 == p2.y
        bbox_width  == x2 - x1
        bbox_height == y2 - y1
    IN  [category_idx |-> Index(cats, label),
         x_center     |-> x1 + bbox_width \div 2,
         y_center     |-> y1 + bbox_height \div 2,
         bbox_width   |-> bbox_width,
         bbox_height  |-> bbox_height]

\* The file as it is when a line goes in front of the earlier ones.
WriteFirst(file, line) == <<line>> \o file

\* label_file.write (line 307): the line goes to the end of the file.
Write(file, line) == Append(file, line)

\* A directory (or the tree of directories) with entry k set to v.
Put(dir, k, v) == [j \in (DOMAIN dir) \cup {k} |-> IF j = k THEN v ELSE dir[j]]

\* The tree as it is when the directory is emptied before the run.
MkdirFresh(tree, d) == Put(tree, d, <<>>)

\* Path.mkdir(parents=True, exist_ok=True) (lines 273, 276)
Mkdir(tree, d) == IF d \in DOMAIN tree THEN tree ELSE Put(tree, d, <<>>)

\* What follows the call of create_dataset in the notebook (lines 315-316).
AfterCall(type) == IF type = "train" THEN "val" ELSE "end"

----------------------------------------------------------------------------
(* Inputs *)

\* The coordinates the geometry inputs draw their corners from
\* (0, 0.1, 0.2, 0.3, 0.6 and 1).
Coords == {0, 2, 4, 6, 12, One}

\* The annotation arrays of the rows of a notebook run.
NotebookAnnotations ==
    { <<>>,
      <<Box(<<"Jeans">>, 2, 4, 6, 12), Box(<<"Tops">>, 6, 12, 2, 4)>>,
      <<Box(<<>>, 0, 4, 6, 12), Box(<<"sunglasses", "Tshirts">>, 0, 4, One, 12)>> }

\* The categories list of a call of create_dataset made on its own.
CallCategories == <<"Jeans", "Tops">>

\* The annotation arrays of the rows of such a call; "Tshirts" is not in
\* CallCategories.
CallAnnotations ==
    { <<>>,
      <<Box(<<"Tops">>, 0, 0, One, One)>>,
      <<Box(<<"Jeans">>, 2, 4, 6, 12), Box(<<"Jeans">>, 6, 12, 2, 4)>>,
      <<Box(<<"Jeans">>, 2, 4, 6, 12), Box(<<"Tshirts">>, 0, 0, One, One)>> }

\* One row with one box of one label, over every pair of corners.
GeometryAnnotations ==
    { <<Box(<<"Tops">>, x1, y1, x2, y2)>> : x1 \in Coords, y1 \in Coords,
                                            x2 \in Coords, y2 \in Coords }

\* The lists of at most MaxRecords rows over the annotation arrays in A; the
\* i-th row has the i-th locator.
RowLists(A) ==
    UNION { { [i \in 1..n |-> Row(i, f[i])] : f \in [1..n -> A] } : n \in 0..MaxRecords }

\* An earlier run over more rows than any run here.
PriorRecords == MaxRecords + 1

StaleImage == Jpeg(Url(0))

StaleLine ==
    [category_idx |-> 0, x_center |-> One \div 2, y_center |-> One \div 2,
     bbox_width |-> One, bbox_height |-> One]

StaleLabel == <<StaleLine, StaleLine>>

\* The images tree an earlier run over n rows left (none when n = 0).
PriorImages(n) ==
    [t \in (IF n = 0 THEN {} ELSE DatasetTypes) |->
        [name \in {image_name(i) : i \in 0..(n - 1)} |-> StaleImage]]

\* The labels tree an earlier run over n rows left.
PriorLabels(n) ==
    [t \in (IF n = 0 THEN {} ELSE DatasetTypes) |->
        [name \in {label_name(i) : i \in 0..(n - 1)} |-> StaleLabel]]

----------------------------------------------------------------------------
(* Initial states *)

\* Nothing of a call of create_dataset has happened yet.
NoCall ==
    /\ dataset_type = "none"
    /\ fpc = "none"
    /\ img_id = 0
    /\ cursor = 0
    /\ label_file = <<>>
    /\ written = {}
    /\ error = "none"
    /\ images = PriorImages(prior)
    /\ labels = PriorLabels(prior)

\* The cell of lines 315-316 has not been run before; the output trees are
\* what an earlier run, if any, left.
FirstRun ==
    /\ rerun = FALSE
    /\ before = [images |-> PriorImages(prior), labels |-> PriorLabels(prior)]

\* part_000: the API is not part of the notebook; no request is being handled.
NoRequest ==
    /\ model = [text \in {} |-> <<>>]
    /\ request = <<>>
    /\ prediction = <<>>
    /\ response = <<>>
    /\ hpc = "idle"

\* The notebook run from the top: clothing is loaded, nothing is computed.
InitNotebook ==
    /\ clothing \in RowLists(NotebookAnnotations)
    /\ categories = <<>>
    /\ train_clothing = <<>>
    /\ val_clothing = <<>>
    /\ pc = "build"
    /\ prior \in {0, PriorRecords}
    /\ NoCall
    /\ FirstRun
    /\ NoRequest

\* create_dataset called on its own, with a categories list that was not
\* built from the rows it is given.
InitCall ==
    /\ train_clothing \in RowLists(CallAnnotations)
                             \cup { <<Row(1, a)>> : a \in GeometryAnnotations }
    /\ clothing = train_clothing
    /\ categories = CallCategories
    /\ val_clothing = <<>>
    /\ pc = "train"
    /\ prior \in {0, PriorRecords}
    /\ NoCall
    /\ FirstRun
    /\ NoRequest

Init == InitNotebook \/ InitCall

----------------------------------------------------------------------------
(* The notebook's cells *)

\* Lines 132-137: categories = sorted list of the distinct labels.
BuildCategories ==
    /\ pc = "build"
    /\ categories' \in CategoriesOf(clothing)
    /\ pc' = "split"
    /\ UNCHANGED <<clothing, train_clothing, val_clothing, dataset_type, fpc, img_id,
                   cursor, label_file, images, labels, written, error, prior, before, rerun, api>>

\* The size of the test part for test_size=0.1: ceil(0.1 * n).
TestSize(n) == (n + 9) \div 10

\* Line 156: a shuffled split; it raises when the train part would be empty.
TrainTestSplit ==
    /\ pc = "split"
    /\ LET n       == Len(clothing)
           n_test  == TestSize(n)
           n_train == n - n_test
       IN  IF n_train <= 0
           THEN /\ pc' = "raised"
                /\ error' = "ValueError"
                /\ UNCHANGED <<train_clothing, val_clothing>>
           ELSE /\ \E perm \in Permutations(1..n) :
                    /\ train_clothing' = [i \in 1..n_train |-> clothing[perm[i]]]
                    /\ val_clothing' = [i \in 1..n_test |-> clothing[perm[n_train + i]]]
                /\ pc' = "train"
                /\ error' = error
    /\ UNCHANGED <<clothing, categories, dataset_type, fpc, img_id, cursor, label_file,
                   images, labels, written, prior, before, rerun, api>>

----------------------------------------------------------------------------
(* create_dataset *)

\* Lines 270-278 (and 315, 316): the call, the two mkdir, the loop's start.
Call ==
    /\ pc \in DatasetTypes
    /\ fpc = "none"
    /\ dataset_type' = pc
    /\ images' = Mkdir(images, pc)
    /\ labels' = Mkdir(labels, pc)
    /\ img_id' = 0
    /\ LET rows == IF pc = "train" THEN train_clothing ELSE val_clothing
       IN  IF rows = <<>>
           THEN /\ fpc' = "none"
                /\ pc' = AfterCall(pc)
           ELSE /\ fpc' = "fetch"
                /\ pc' = pc
    /\ UNCHANGED <<clothing, categories, train_clothing, val_clothing, cursor,
                   label_file, written, error, prior, before, rerun, api>>

\* An exception leaves create_dataset and ends the notebook run.
Raise(e) ==
    /\ error' = e
    /\ pc' = "raised"
    /\ fpc' = "none"

\* Lines 280-286: the image is fetched, converted and saved.
FetchAndSave ==
    /\ fpc = "fetch"
    /\ images' = [images EXCEPT ![dataset_type] =
                      Put(@, image_name(img_id), Jpeg(CurrentRow.content))]
    /\ written' = written \cup {<<"images", dataset_type, image_name(img_id)>>}
    /\ fpc' = "open"
    /\ UNCHANGED <<clothing, categories, train_clothing, val_clothing, pc,
                   dataset_type, img_id, cursor, label_file, labels, error, prior, before, rerun, api>>

\* The step as it is when the exception of urlopen is swallowed and the
\* iteration goes on without an image.
FetchFailsCaught ==
    /\ fpc = "fetch"
    /\ fpc' = "open"
    /\ UNCHANGED <<clothing, categories, train_clothing, val_clothing, pc,
                   dataset_type, img_id, cursor, label_file, images, labels, written,
                   error, prior, before, rerun, api>>

\* Line 282: urlopen raises; nothing catches it.
FetchFails ==
    /\ fpc = "fetch"
    /\ Raise("URLError")
    /\ UNCHANGED <<clothing, categories, train_clothing, val_clothing, dataset_type,
                   img_id, cursor, label_file, images, labels, written, prior, before, rerun, api>>

\* The step as it is with open(mode="a"): what the file holds stays, and the
\* lines written go after it.
OpenLabelAppend ==
    /\ fpc = "open"
    /\ LET name == label_name(img_id)
           held == IF name \in DOMAIN labels[dataset_type]
                   THEN labels[dataset_type][name] ELSE <<>>
       IN  /\ labels' = [labels EXCEPT ![dataset_type] = Put(@, name, held)]
           /\ label_file' = held
    /\ written' = written \cup {<<"labels", dataset_type, label_name(img_id)>>}
    /\ cursor' = 0
    /\ fpc' = "write"
    /\ UNCHANGED <<clothing, categories, train_clothing, val_clothing, pc,
                   dataset_type, img_id, images, error, prior, before, rerun, api>>

\* Lines 288-290: open(mode="w") creates the label file or truncates it.
OpenLabel ==
    /\ fpc = "open"
    /\ labels' = [labels EXCEPT ![dataset_type] = Put(@, label_name(img_id), <<>>)]
    /\ written' = written \cup {<<"labels", dataset_type, label_name(img_id)>>}
    /\ label_file' = <<>>
    /\ cursor' = 0
    /\ fpc' = "write"
    /\ UNCHANGED <<clothing, categories, train_clothing, val_clothing, pc,
                   dataset_type, img_id, images, error, prior, before, rerun, api>>

\* The directory as it is when a label file is only kept once it has a line.
ClosedIfAny ==
    IF label_file = <<>>
    THEN [labels EXCEPT ![dataset_type] =
             [name \in (DOMAIN @) \ {label_name(img_id)} |-> @[name]]]
    ELSE [labels EXCEPT ![dataset_type] = Put(@, label_name(img_id), label_file)]

\* The with statement's exit (line 290): the file is closed, which puts the
\* lines written so far on disk.
Closed == [labels EXCEPT ![dataset_type] = Put(@, label_name(img_id), label_file)]

\* Lines 292-309, one pass of the inner loop: the next label's line is written.
WriteLabel ==
    /\ fpc = "write"
    /\ cursor < Len(LabelPairs(CurrentRow.annotation))
    /\ LET pair == LabelPairs(CurrentRow.annotation)[cursor + 1]
       IN  IF pair.label \in Range(categories)
           THEN /\ label_file' = Write(label_file, Line(categories, pair.label, pair.a))
                /\ cursor' = cursor + 1
                /\ UNCHANGED <<pc, fpc, error, labels>>
           ELSE \* categories.index raises ValueError (line 296)
                /\ Raise("ValueError")
                /\ labels' = Closed
                /\ UNCHANGED <<label_file, cursor>>
    /\ UNCHANGED <<clothing, categories, train_clothing, val_clothing, dataset_type,
                   img_id, images, written, prior, before, rerun, api>>

\* The loops over the row's annotations are over: the file is closed and the
\* outer loop goes to the next row, or create_dataset returns.
CloseLabel ==
    /\ fpc = "write"
    /\ cursor = Len(LabelPairs(CurrentRow.annotation))
    /\ labels' = Closed
    /\ img_id' = img_id + 1
    /\ IF img_id + 1 < Len(Rows)
       THEN /\ fpc' = "fetch"
            /\ pc' = pc
       ELSE /\ fpc' = "none"
            /\ pc' = AfterCall(dataset_type)
    /\ UNCHANGED <<clothing, categories, train_clothing, val_clothing, dataset_type,
                   cursor, label_file, images, written, error, prior, before, rerun, api>>

\* The run is interrupted (KeyboardInterrupt) inside create_dataset; an open
\* label file is closed by the with statement on the way out.
Interrupt ==
    /\ fpc # "none"
    /\ Raise("KeyboardInterrupt")
    /\ labels' = IF fpc = "write" THEN Closed ELSE labels
    /\ UNCHANGED <<clothing, categories, train_clothing, val_clothing, dataset_type,
                   img_id, cursor, label_file, images, written, prior, before, rerun, api>>

\* The cell of lines 315-316 is run again after it ran to its end, with the
\* same train_clothing, val_clothing and categories, over the files the
\* first run left.
Rerun ==
    /\ pc = "end"
    /\ ~rerun
    /\ rerun' = TRUE
    /\ before' = [images |-> images, labels |-> labels]
    /\ pc' = "train"
    /\ dataset_type' = "none"
    /\ img_id' = 0
    /\ cursor' = 0
    /\ label_file' = <<>>
    /\ written' = {}
    /\ UNCHANGED <<clothing, categories, train_clothing, val_clothing, fpc, images,
                   labels, error, prior, api>>

Next ==
    \/ BuildCategories
    \/ TrainTestSplit
    \/ Call
    \/ FetchAndSave
    \/ FetchFails
    \/ OpenLabel
    \/ WriteLabel
    \/ CloseLabel
    \/ Interrupt
    \/ Rerun

Spec == Init /\ [][Next]_vars

----------------------------------------------------------------------------
(* Properties of the categories list *)

\* The distinct category strings of a list of rows.
LabelSet(rows) == Range(Extended(rows))

\* s is in strictly increasing code point order.
StrictlySorted(s) == \A i \in 1..(Len(s) - 1) : LexLess(s[i], s[i + 1])

\* The label files this run has written in directory t, by name.
WrittenLabels(t) == {name \in DOMAIN labels[t] : <<"labels", t, name>> \in written}

\* Every line this run has put in a label file, on disk or still in the open file.
LinesWritten ==
    UNION { UNION { Range(labels[t][name]) : name \in WrittenLabels(t) } :
                t \in DOMAIN labels }
        \cup Range(label_file)

\* s back to front.
Reverse(s) == [i \in 1..Len(s) |-> s[Len(s) + 1 - i]]

\* The same rows read in the opposite order: rows, annotations of a row and
\* labels of an annotation all back to front.
Mirror(rows) ==
    Reverse([i \in 1..Len(rows) |->
        [content    |-> rows[i].content,
         annotation |-> Reverse([j \in 1..Len(rows[i].annotation) |->
             [label  |-> Reverse(rows[i].annotation[j].label),
              points |-> rows[i].annotation[j].points]])]])

\* C1: the categories list is a function of the set of category strings
\* alone: it lists that set in strictly increasing lexicographic order (so a
\* name's index is its position in the sorted list of distinct names), and
\* every list of rows with the same set of category strings, whatever the
\* order of its rows and annotations or the number of repeats, and whatever
\* order set() iterates in, gives this same list.
C1_CategoriesDeterministic ==
    pc = "split" =>
        /\ StrictlySorted(categories)
        /\ Range(categories) = LabelSet(clothing)
        /\ \A other \in RowLists(NotebookAnnotations) :
               LabelSet(other) = LabelSet(clothing)
                   => /\ CategoriesOf(other) = {categories}
                      /\ CategoriesOf(Mirror(other)) = {categories}

\* C1's case: four names were collected, the first of them not the smallest,
\* and the list is built.
C1_Witness ==
    /\ pc = "split"
    /\ Len(clothing) = 3
    /\ categories = <<"Jeans", "Tops", "Tshirts", "sunglasses">>
    /\ Head(Extended(clothing)) = "sunglasses"

\* C2: the categories list holds every collected name exactly once and the
\* indices list.index gives the names are exactly 0..n-1; every index
\* create_dataset writes is at least 0 and less than the length of the list.
C2_IndexBijective ==
    /\ pc = "split" =>
           LET n == Cardinality(LabelSet(clothing))
           IN  /\ Len(categories) = n
               /\ \A name \in LabelSet(clothing) :
                      Cardinality({i \in 1..Len(categories) : categories[i] = name}) = 1
               /\ {Index(categories, name) : name \in LabelSet(clothing)} = 0..(n - 1)
    /\ \A i, j \in 1..Len(categories) : categories[i] = categories[j] => i = j
    /\ \A line \in LinesWritten :
           line.category_idx \in 0..(Len(categories) - 1)

\* C2's case: the notebook has run to its end with four categories and a
\* label file on disk carries the last index.
C2_Witness ==
    /\ pc = "end"
    /\ Len(clothing) = 3
    /\ Len(categories) = 4
    /\ \E line \in LinesWritten : line.category_idx = 3

----------------------------------------------------------------------------
(* Properties of the label lines *)

\* The rows given to the call for directory t.
RowsOf(t) == IF t = "train" THEN train_clothing ELSE val_clothing

\* The lines of `file`, the label file of row i of directory t, each with the
\* (a, label) pair whose pass of the inner loop wrote it.
FileEntries(t, i, file) ==
    LET pairs == LabelPairs(RowsOf(t)[i + 1].annotation)
    IN  {[a |-> pairs[j].a, label |-> pairs[j].label, line |-> file[j]] :
            j \in 1..Len(file)}

\* Every line this run has written, on disk or in the open file, with its pair.
WrittenEntries ==
    UNION { UNION { FileEntries(t, name[1], labels[t][name]) : name \in WrittenLabels(t) } :
                t \in DOMAIN labels }
        \cup (IF fpc = "write" THEN FileEntries(dataset_type, img_id, label_file) ELSE {})

\* C3: every line written carries width = x2 - x1, height = y2 - y1 and the
\* centre at the midpoint of the two corners on each axis (x1 + width/2,
\* y1 + height/2); the corners (0.1,0.2),(0.3,0.6) give centre (0.2,0.4),
\* width 0.2 and height 0.4 (2, 4, 6, 12 and 4, 8, 4, 8 in units of 1/20).
C3_BoxFormula ==
    \A e \in WrittenEntries :
        LET x1 == e.a.points[1].x
            y1 == e.a.points[1].y
            x2 == e.a.points[2].x
            y2 == e.a.points[2].y
        IN  /\ e.line.bbox_width = x2 - x1
            /\ e.line.bbox_height = y2 - y1
            /\ 2 * e.line.x_center = x1 + x2
            /\ 2 * e.line.y_center = y1 + y2
            /\ (x1 = 2 /\ y1 = 4 /\ x2 = 6 /\ y2 = 12) =>
                   /\ e.line.x_center = 4
                   /\ e.line.y_center = 8
                   /\ e.line.bbox_width = 4
                   /\ e.line.bbox_height = 8

\* C3's case: the line of a box with corners (0.1,0.2),(0.3,0.6) is on disk
\* in a closed label file.
C3_Witness ==
    /\ fpc = "none"
    /\ error = "none"
    /\ \E e \in WrittenEntries :
           /\ e.a.points = <<[x |-> 2, y |-> 4], [x |-> 6, y |-> 12]>>
           /\ e.line.x_center = 4
           /\ e.line.bbox_height = 8

\* C4 as claimed: two annotations of the same category whose points are the
\* same two corners in opposite order get the same line.
C4_CornerOrderInsensitive ==
    \A e1, e2 \in WrittenEntries :
        (/\ e1.label = e2.label
         /\ e1.a.points[1] = e2.a.points[2]
         /\ e1.a.points[2] = e2.a.points[1])
            => e1.line = e2.line

\* C5 as claimed: centre, width and height of every line written are within
\* [0, 1] (every input corner is).
C5_BoxWithinUnit ==
    \A line \in LinesWritten :
        /\ line.x_center \in 0..One
        /\ line.y_center \in 0..One
        /\ line.bbox_width \in 0..One
        /\ line.bbox_height \in 0..One

----------------------------------------------------------------------------
(* Properties of a call of create_dataset *)

\* A call of create_dataset has been made and is over: it returned (error is
\* "none") or an exception left it.
CallOver == dataset_type # "none" /\ fpc = "none"

\* Row `row` carries a category string that is not in the categories list.
HasUnknownCategory(row) ==
    \E j \in 1..Len(row.annotation) :
        \E l \in 1..Len(row.annotation[j].label) :
            row.annotation[j].label[l] \notin Range(categories)

\* All the lines of a row whose categories are all known: one per pass of the
\* inner loop.
AllLines(row) ==
    LET pairs == LabelPairs(row.annotation)
    IN  [j \in 1..Len(pairs) |-> Line(categories, pairs[j].label, pairs[j].a)]

\* Both files of row i (0-based) of the last call have been written by this
\* run, the label file with all its lines.
RowDone(i) ==
    /\ <<"images", dataset_type, <<i, "jpeg">>>> \in written
    /\ <<"labels", dataset_type, <<i, "txt">>>> \in written
    /\ images[dataset_type][<<i, "jpeg">>] = Jpeg(Rows[i + 1].content)
    /\ ~HasUnknownCategory(Rows[i + 1])
    /\ labels[dataset_type][<<i, "txt">>] = AllLines(Rows[i + 1])

\* C6 as claimed: when exactly one row of the batch has an unknown category
\* (and nothing else went wrong), every other row, before and after it, has
\* its image and its label file written once the call is over.
C6_UnknownCategoryIsolated ==
    (/\ CallOver
     /\ error \in {"none", "ValueError"}
     /\ Cardinality({i \in 1..Len(Rows) : HasUnknownCategory(Rows[i])}) = 1)
        => \A i \in 1..Len(Rows) : ~HasUnknownCategory(Rows[i]) => RowDone(i - 1)

\* C7 as claimed: when the fetch of one row's image failed, the rows after it
\* (none of which has an unknown category) still have their files written
\* once the call is over.
C7_FetchFailureIsolated ==
    (/\ CallOver
     /\ error = "URLError"
     /\ \A i \in 1..Len(Rows) : ~HasUnknownCategory(Rows[i]))
        => \A i \in (img_id + 1)..(Len(Rows) - 1) : RowDone(i)

\* C8 as claimed: once the call is over, however it ended, each label file in
\* the directory holds all the lines of its row or is what it was before the
\* run began.
C8_NoPartialLabel ==
    CallOver =>
        \A name \in DOMAIN labels[dataset_type] :
            \/ /\ dataset_type \in DOMAIN before.labels
               /\ name \in DOMAIN before.labels[dataset_type]
               /\ labels[dataset_type][name] = before.labels[dataset_type][name]
            \/ /\ name[1] < Len(Rows)
               /\ ~HasUnknownCategory(Rows[name[1] + 1])
               /\ labels[dataset_type][name] = AllLines(Rows[name[1] + 1])

\* C9: when a call over n rows has returned, the image files and the label
\* files it wrote are exactly <i>.jpeg and <i>.txt for i in 0..n-1, and
\* <i>.jpeg is the image of the row at position i and <i>.txt holds the
\* lines of that row and nothing else.
C9_IdentifiersByPosition ==
    (CallOver /\ error = "none") =>
        LET n == Len(Rows)
        IN  /\ {w[3] : w \in {v \in written : v[1] = "images" /\ v[2] = dataset_type}}
                   = {<<i, "jpeg">> : i \in 0..(n - 1)}
            /\ {w[3] : w \in {v \in written : v[1] = "labels" /\ v[2] = dataset_type}}
                   = {<<i, "txt">> : i \in 0..(n - 1)}
            /\ \A i \in 0..(n - 1) : RowDone(i)

\* C9's case: a call over three rows with different annotations has returned
\* and replaced the files an earlier run had left.
C9_Witness ==
    /\ CallOver
    /\ error = "none"
    /\ prior > 0
    /\ Len(Rows) = 3
    /\ Rows[1].annotation # Rows[2].annotation
    /\ Rows[2].annotation # Rows[3].annotation
    /\ Rows[3].annotation # <<>>
    /\ RowDone(2)

\* The label file of row i of directory t was written by this run and closed
\* at the end of its with block (not by an exception).
ClosedLabel(t, i) ==
    /\ t \in DOMAIN labels
    /\ <<"labels", t, <<i, "txt">>>> \in written
    /\ t # dataset_type \/ i < img_id

\* The pairs of an annotation array, counted label by label.
RECURSIVE CountLabels(_)
CountLabels(annotation) ==
    IF annotation = <<>> THEN 0
    ELSE Len(Head(annotation).label) + CountLabels(Tail(annotation))

\* The box numbers of `line` are those of annotation a.
DerivedFrom(line, a) ==
    /\ line.bbox_width = a.points[2].x - a.points[1].x
    /\ line.bbox_height = a.points[2].y - a.points[1].y
    /\ 2 * line.x_center = a.points[1].x + a.points[2].x
    /\ 2 * line.y_center = a.points[1].y + a.points[2].y

----------------------------------------------------------------------------
(* Rows without annotations *)

\* C11: a row with no annotations whose image was fetched and saved gets a
\* label file that exists and is empty (whatever an earlier run left under
\* that name), and the loop goes on past it: once its with block is left the
\* counter is beyond it or the call has returned.  (Between saving the image
\* and opening the label file, and when the run is interrupted there, the
\* label file is not there yet.)
C11_EmptyLabelFile ==
    \A t \in DatasetTypes : \A i \in 0..(Len(RowsOf(t)) - 1) :
        (/\ RowsOf(t)[i + 1].annotation = <<>>
         /\ <<"images", t, <<i, "jpeg">>>> \in written
         /\ ~(t = dataset_type /\ i = img_id /\ fpc = "open")
         /\ ~(t = dataset_type /\ i = img_id /\ error = "KeyboardInterrupt"))
            => /\ <<i, "txt">> \in DOMAIN labels[t]
               /\ labels[t][<<i, "txt">>] = <<>>
               /\ <<"labels", t, <<i, "txt">>>> \in written
               /\ (/\ t = dataset_type
                   /\ error = "none"
                   /\ ~(fpc = "write" /\ img_id = i)) => img_id > i

\* C11's case: a call has returned whose second row has no annotations; its
\* label file replaced a stale one and is empty, and the row after it was
\* written too.
C11_Witness ==
    /\ CallOver
    /\ error = "none"
    /\ prior > 0
    /\ Len(Rows) = 3
    /\ Rows[2].annotation = <<>>
    /\ Rows[3].annotation # <<>>
    /\ labels[dataset_type][<<1, "txt">>] = <<>>
    /\ RowDone(2)

----------------------------------------------------------------------------
(* Running the calls twice *)

\* C12: when the two calls are run a second time with the same rows,
\* categories and directories and run to their end, the output trees hold
\* exactly the files, with exactly the contents, that the first run left:
\* label files are written over, with nothing appended or merged.
C12_RerunSameTree ==
    (rerun /\ pc = "end" /\ error = "none") =>
        /\ images = before.images
        /\ labels = before.labels

\* C12's case: the second run has ended after writing again a two-line label
\* file, and files with higher numbers that the first run had found are
\* still there.
C12_Witness ==
    /\ rerun
    /\ pc = "end"
    /\ error = "none"
    /\ prior > 0
    /\ Len(train_clothing) >= 2
    /\ <<"labels", "train", <<1, "txt">>>> \in written
    /\ Len(labels["train"][<<1, "txt">>]) = 2

----------------------------------------------------------------------------
(* Degenerate boxes and empty category sets *)

\* C13 as claimed: an annotation whose two corners share an x or a y (a box
\* of width or height 0 once the corners are put in order) never gets a
\* line in a label file.
C13_DegenerateNeverWritten ==
    \A e \in WrittenEntries :
        /\ e.a.points[1].x # e.a.points[2].x
        /\ e.a.points[1].y # e.a.points[2].y

\* C14 as claimed: the categories cell never ends with an empty list (it
\* fails instead when no row has an annotation with a label).
C14_NeverEmptyIndex ==
    pc = "split" => categories # <<>>

----------------------------------------------------------------------------
(* Category indices across the two directories *)

\* The names list of clothing.yaml (lines 397-408), the class names the
\* training is given.
YamlNames ==
    <<"Jackets", "Jeans", "Shirts", "Shoes", "Skirts", "Tops", "Trousers",
      "Tshirts", "sunglasses">>

\* The position (0-based) of a class name in clothing.yaml.
YamlIndex(name) == Index(YamlNames, name)

----------------------------------------------------------------------------
(* Order of the writes, and what a call leaves alone *)

\* Both files of row i (0-based) of the call for directory t have been
\* written by this run and are complete.
RowComplete(t, i) ==
    /\ <<"images", t, <<i, "jpeg">>>> \in written
    /\ <<"labels", t, <<i, "txt">>>> \in written
    /\ images[t][<<i, "jpeg">>] = Jpeg(RowsOf(t)[i + 1].content)
    /\ ~HasUnknownCategory(RowsOf(t)[i + 1])
    /\ labels[t][<<i, "txt">>] = AllLines(RowsOf(t)[i + 1])

\* C17: whenever this run has created <i>.txt in a directory it has written
\* <i>.jpeg there before, and both files of every earlier row are complete;
\* when the fetch of a row raised, this run has created no label file for
\* that row or for a later one.
C17_ImageBeforeLabel ==
    /\ \A t \in DatasetTypes : \A i \in 0..(Len(RowsOf(t)) - 1) :
           <<"labels", t, <<i, "txt">>>> \in written =>
               /\ <<"images", t, <<i, "jpeg">>>> \in written
               /\ <<i, "jpeg">> \in DOMAIN images[t]
               /\ images[t][<<i, "jpeg">>] = Jpeg(RowsOf(t)[i + 1].content)
               /\ \A j \in 0..(i - 1) : RowComplete(t, j)
    /\ \A w \in written : w[3][1] < Len(RowsOf(w[2]))
    /\ error = "URLError" =>
           \A i \in img_id..(Len(Rows) - 1) :
               <<"labels", dataset_type, <<i, "txt">>>> \notin written

\* C17's case: the fetch of the second of three rows raised; the first row's
\* files are complete and no label file was created for the second and the
\* third.
C17_Witness ==
    /\ error = "URLError"
    /\ Len(Rows) = 3
    /\ img_id = 1
    /\ Rows[1].annotation # <<>>
    /\ RowComplete(dataset_type, 0)
    /\ <<"labels", dataset_type, <<1, "txt">>>> \notin written

\* The files of a tree, as <<directory, name>> pairs.
Files(tree) == UNION { {<<t, name>> : name \in DOMAIN tree[t]} : t \in DOMAIN tree }

\* In one step from `old` to `new` of a tree whose files end in `ext`: no
\* file goes away, and a file that is new or has changed is <i>.<ext> of the
\* running call's directory with i less than the number of its rows.
FrameStep(old, new, ext) ==
    /\ Files(old) \subseteq Files(new)
    /\ \A f \in Files(new) :
           (f \notin Files(old) \/ new[f[1]][f[2]] # old[f[1]][f[2]]) =>
               /\ f[1] = dataset_type'
               /\ f[2][1] \in 0..(Len(Rows') - 1)
               /\ f[2][2] = ext

\* C18: every step of a run changes or creates only <i>.jpeg and <i>.txt
\* with i < n in the directories of the running call over n rows: the files
\* of the other directory, and the files numbered n and above that an
\* earlier run left in the same directory, are neither deleted nor changed.
C18_OnlyOwnFiles ==
    [][ /\ FrameStep(images, images', "jpeg")
        /\ FrameStep(labels, labels', "txt") ]_vars

\* C18's case: the call for train over two rows has returned; its two label
\* files are new, and the label files 2.txt and 3.txt of train and 0.txt of
\* val that an earlier run left are as they were.
C18_Witness ==
    /\ CallOver
    /\ error = "none"
    /\ dataset_type = "train"
    /\ prior > 0
    /\ Len(Rows) = 2
    /\ RowComplete("train", 1)
    /\ labels["train"][<<1, "txt">>] # before.labels["train"][<<1, "txt">>]
    /\ labels["train"][<<2, "txt">>] = StaleLabel
    /\ labels["train"][<<3, "txt">>] = StaleLabel
    /\ images["train"][<<2, "jpeg">>] = StaleImage
    /\ labels["val"] = before.labels["val"]
    /\ images["val"] = before.images["val"]

----------------------------------------------------------------------------
(* The sentiment API of part_000.  A probability is a whole number of      *)
(* 1/Scale, rounded down as the softmax's float result is rounded; a logit *)
(* is a whole number of ln 2, so that its exponential is a power of two.   *)

\* config.json, "CLASS_NAMES" (part_000 lines 150-154)
CLASS_NAMES == <<"negative", "neutral", "positive">>

\* The request texts.
Texts == {"This app is a total waste of time!", "OK"}

\* The largest logit the classifier puts out.
MaxLogit == 2

\* The resolution of a probability.
Scale == 1000

\* The outputs of self.classifier: one logit per class (lines 210, 231).
LogitVectors == [1..Len(CLASS_NAMES) -> 0..MaxLogit]

\* exp of a logit
RECURSIVE Pow2(_)
Pow2(n) == IF n = 0 THEN 1 ELSE 2 * Pow2(n - 1)

\* The sum of a list of numbers.
RECURSIVE SumSeq(_)
SumSeq(s) == IF s = <<>> THEN 0 ELSE Head(s) + SumSeq(Tail(s))

\* F.softmax(logits, dim=1) (line 231)
Softmax(logits) ==
    LET e == [i \in DOMAIN logits |-> Pow2(logits[i])]
    IN  [i \in DOMAIN logits |-> (e[i] * Scale) \div SumSeq(e)]

\* torch.max(probabilities, dim=1) (line 232): the largest value and a
\* (0-based) position that holds it; which one, when several do, is not
\* fixed.
TorchMax(probabilities) ==
    { <<probabilities[k], k - 1>> :
        k \in {k \in DOMAIN probabilities :
                 \A j \in DOMAIN probabilities : probabilities[j] <= probabilities[k]} }

\* zip(a, b): pairs up to the shorter of the two lists.
Zip(a, b) ==
    [i \in 1..(IF Len(a) <= Len(b) THEN Len(a) ELSE Len(b)) |-> <<a[i], b[i]>>]

\* dict(pairs): a key's value is that of its last pair.
Dict(pairs) ==
    [key \in {pairs[i][1] : i \in DOMAIN pairs} |->
        pairs[CHOOSE i \in DOMAIN pairs :
                /\ pairs[i][1] = key
                /\ \A j \in DOMAIN pairs : pairs[j][1] = key => j <= i][2]]

\* Model.predict(text) (lines 217-239): the tuples it can return.
Predict(m, text) ==
    LET probabilities == Softmax(m[text])
    IN  { <<CLASS_NAMES[mx[2] + 1], mx[1], Dict(Zip(CLASS_NAMES, probabilities))>> :
          mx \in TorchMax(probabilities) }

\* SentimentResponse(...) (lines 86-90)
SentimentResponse(sentiment, confidence, probabilities) ==
    [probabilities |-> probabilities, sentiment |-> sentiment, confidence |-> confidence]

\* The server is up: the model is loaded (lines 210-215, 242), no request has
\* come in.  The notebook plays no part.
InitPredict ==
    /\ model \in [Texts -> LogitVectors]
    /\ request = <<>>
    /\ prediction = <<>>
    /\ response = <<>>
    /\ hpc = "idle"
    /\ clothing = <<>>
    /\ categories = <<>>
    /\ train_clothing = <<>>
    /\ val_clothing = <<>>
    /\ pc = "build"
    /\ prior = 0
    /\ NoCall
    /\ FirstRun

\* POST /predict arrives with a SentimentRequest (lines 82-83, 262-263).
Receive ==
    /\ hpc = "idle"
    /\ \E text \in Texts : request' = <<[text |-> text]>>
    /\ prediction' = <<>>
    /\ response' = <<>>
    /\ hpc' = "predict"
    /\ UNCHANGED <<model, notebook>>

\* Line 264: sentiment, confidence, probabilities = model.predict(request.text)
ModelPredict ==
    /\ hpc = "predict"
    /\ \E result \in Predict(model, request[1].text) : prediction' = <<result>>
    /\ hpc' = "respond"
    /\ UNCHANGED <<model, request, response, notebook>>

\* The first version of the handler (lines 93-99): a fixed response.
RespondStub ==
    /\ hpc = "respond"
    /\ response' = << SentimentResponse(
                          "positive", (98 * Scale) \div 100,
                          Dict(<< <<"negative", (5 * Scale) \div 1000>>,
                                  <<"neutral", (15 * Scale) \div 1000>>,
                                  <<"positive", (98 * Scale) \div 100>> >>)) >>
    /\ hpc' = "idle"
    /\ UNCHANGED <<model, request, prediction, notebook>>

\* Lines 265-267: the response is built from the three values and returned.
Respond ==
    /\ hpc = "respond"
    /\ response' = << SentimentResponse(prediction[1][1], prediction[1][2],
                                        prediction[1][3]) >>
    /\ hpc' = "idle"
    /\ UNCHANGED <<model, request, prediction, notebook>>

NextPredict ==
    \/ Receive
    \/ ModelPredict
    \/ Respond

SpecPredict == InitPredict /\ [][NextPredict]_vars

\* C16: the values line 264 binds are a result of model.predict on the
\* request's text, and the response returned for a request carries exactly
\* those three values; its sentiment is the class name at a position where
\* the softmax output is largest, its confidence is that class's entry of
\* its probabilities, and its probabilities have exactly one entry per
\* configured class name, the softmax output at that class's position.
C16_PassThrough ==
    /\ prediction # <<>> => prediction[1] \in Predict(model, request[1].text)
    /\ response # <<>> =>
           LET r == response[1]
               p == prediction[1]
               dist == Softmax(model[request[1].text])
           IN  /\ r.sentiment = p[1]
               /\ r.confidence = p[2]
               /\ r.probabilities = p[3]
               /\ \E k \in DOMAIN CLASS_NAMES :
                      /\ r.sentiment = CLASS_NAMES[k]
                      /\ \A j \in DOMAIN dist : dist[j] <= dist[k]
               /\ r.confidence = r.probabilities[r.sentiment]
               /\ DOMAIN r.probabilities = Range(CLASS_NAMES)
               /\ Cardinality(DOMAIN r.probabilities) = Len(CLASS_NAMES)
               /\ \A j \in DOMAIN CLASS_NAMES : r.probabilities[CLASS_NAMES[j]] = dist[j]

\* C16's case: a response has been returned for a text the classifier rates
\* negative above positive above neutral.
C16_Witness ==
    /\ hpc = "idle"
    /\ response # <<>>
    /\ request[1].text = "This app is a total waste of time!"
    /\ model[request[1].text] = <<2, 0, 1>>
    /\ response[1].sentiment = "negative"
    /\ response[1].confidence = (4 * Scale) \div 7
    /\ response[1].probabilities["positive"] = (2 * Scale) \div 7

====
